---- MODULE Spec2Model ----
(***************************************************************************)
(* A model of src/fetch_data.py: the metrics extractor (pct,                *)
(* extract_metrics), the batch fetcher with its retry loop (fetch_batch),   *)
(* the 2-year yield fallback chain (fetch_treasury_2y), the holdings        *)
(* lookup (fetch_etf_holdings) and the orchestration (fetch_all).           *)
(*                                                                         *)
(* Units.  Prices (closes, highs) are integers.  Percentages are integers   *)
(* in hundredths of a percent (2.91 % is 291), which is what round(x, 2)    *)
(* leaves.  Treasury rates are read in units of 1e-5 and stored, after      *)
(* round(rate, 4), in units of 1e-4.  Time slept is in seconds.             *)
(*                                                                         *)
(* Three specifications share the variables:                               *)
(*   SpecExtract  one call of extract_metrics on a bounded bar sequence;    *)
(*   SpecBatch    one call of fetch_batch(tickers, retries);                *)
(*   Spec         one run of fetch_all over the 13 groups.                  *)
(***************************************************************************)
EXTENDS Integers, Sequences, FiniteSets, TLC

VARIABLES
    pc,            \* position of fetch_all / of the extract_metrics call
    df, sym,       \* extract_metrics: its arguments
    result,        \* extract_metrics: its return value
    tickers,       \* fetch_batch: argument
    retries,       \* fetch_batch: argument
    attempt,       \* fetch_batch: the loop variable of the retry loop
    bpc,           \* fetch_batch: "idle", "try" (in the retry loop), "returned"
    data,          \* fetch_batch: what yf.download returned (NoData before)
    results,       \* fetch_batch: the map it returns
    raised,        \* TRUE once an exception has escaped to the caller
    slept,         \* seconds slept so far by time.sleep in fetch_batch/fetch_all
    dlog,          \* history: one entry per yf.download call, in order
    gi,            \* fetch_all: index into batches of the group being fetched
    output,        \* fetch_all: the snapshot's group lists
    raws,          \* history: the map fetch_batch returned for each group
    probed,        \* history: the 2-year sources requested, in order
    primaryRate,   \* history: what the FRED probe produced
    secondaryRate, \* history: what the Treasury XML probe produced
    rec2y,         \* fetch_all: rec_2y
    holdings,      \* fetch_all: output['holdings'] (the symbols that got rows)
    bg,            \* environment: its background behaviour during this run
    budget         \* environment: deviations from the background still allowed

vars == <<pc, df, sym, result, tickers, retries, attempt, bpc, data, results,
          raised, slept, dlog, gi, output, raws, probed, primaryRate,
          secondaryRate, rec2y, holdings, bg, budget>>

extractVars == <<df, sym, result>>
batchVars   == <<tickers, retries, attempt, bpc, data, results>>
allVars     == <<gi, output, raws, probed, primaryRate, secondaryRate, rec2y, holdings>>

----------------------------------------------------------------------------
(* Bounds of the model.                                                     *)

\* longest bar sequence enumerated for extract_metrics
MaxBars == 6
\* longest ticker list handed to fetch_batch in SpecBatch
MaxBatch == 10
\* largest retry budget handed to fetch_batch in SpecBatch
MaxRetries == 3
\* most deviations of the environment from its background in one run
MaxFaults == 1
\* most data rows / entries in a 2-year yield response
MaxRows == 2

----------------------------------------------------------------------------
(* Values.                                                                  *)

\* Python's None
None == [none |-> TRUE]

\* a missing value in a frame (NaN); real prices are >= 0
NaN == -1

\* datetime.datetime.now().year
ThisYear == 2026

\* time.sleep(5) after a failed download attempt
RetryDelay == 5

\* time.sleep(1) after each group
GroupDelay == 1

\* fetch_batch(tickers, retries=3)
DefaultRetries == 3

Abs(x) == IF x < 0 THEN -x ELSE x

\* round(): n/d to the nearest integer, ties to even (d > 0)
RoundDiv(n, d) ==
    LET q == n \div d
        r == n % d
    IN  IF 2 * r < d THEN q
        ELSE IF 2 * r > d THEN q + 1
        ELSE IF q % 2 = 0 THEN q ELSE q + 1

\* pct(new, old), in hundredths of a percent
pct(new, old) ==
    IF old # 0
    THEN RoundDiv((new - old) * 10000, Abs(old))
    ELSE 0

TICKER_REMAP ==
    [x \in {"ES=F", "NQ=F", "RTY=F", "YM=F", "GC=F", "SI=F", "HG=F", "PL=F",
            "PA=F", "CL=F", "NG=F", "^TNX", "^TYX", "DX-Y.NYB", "^VIX",
            "BTC-USD", "ETH-USD", "SOL-USD", "XRP-USD"} |->
        CASE x = "ES=F" -> "ES1!"   [] x = "NQ=F" -> "NQ1!"
          [] x = "RTY=F" -> "RTY1!" [] x = "YM=F" -> "YM1!"
          [] x = "GC=F" -> "GC1!"   [] x = "SI=F" -> "SI1!"
          [] x = "HG=F" -> "HG1!"   [] x = "PL=F" -> "PL1!"
          [] x = "PA=F" -> "PA1!"   [] x = "CL=F" -> "CL1!"
          [] x = "NG=F" -> "NG1!"   [] x = "^TNX" -> "US10Y"
          [] x = "^TYX" -> "US30Y"  [] x = "DX-Y.NYB" -> "DX-Y.NYB"
          [] x = "^VIX" -> "CBOE:VIX"
          [] x = "BTC-USD" -> "BTC" [] x = "ETH-USD" -> "ETH"
          [] x = "SOL-USD" -> "SOL" [] x = "XRP-USD" -> "XRP"]

\* TICKER_REMAP.get(sym, sym)
Remap(s) == IF s \in DOMAIN TICKER_REMAP THEN TICKER_REMAP[s] ELSE s

crypto_ids ==
    [x \in {"BTC-USD", "ETH-USD", "SOL-USD", "XRP-USD"} |->
        CASE x = "BTC-USD" -> "bitcoin" [] x = "ETH-USD" -> "ethereum"
          [] x = "SOL-USD" -> "solana"  [] x = "XRP-USD" -> "ripple"]

crypto_names ==
    [x \in {"BTC-USD", "ETH-USD", "SOL-USD", "XRP-USD"} |->
        CASE x = "BTC-USD" -> "Bitcoin" [] x = "ETH-USD" -> "Ethereum"
          [] x = "SOL-USD" -> "Solana"  [] x = "XRP-USD" -> "Ripple"]

----------------------------------------------------------------------------
(* extract_metrics.  A frame is [bars, hasHigh]: bars is the sequence of    *)
(* rows [Close, High, year], oldest first; hasHigh says whether the frame   *)
(* has a 'High' column.                                                     *)

\* df.dropna(subset=['Close'])
DropNaClose(bars) == SelectSeq(bars, LAMBDA b : b.Close # NaN)

\* df.dropna(): the rows with no missing value
DropNa(bars) == SelectSeq(bars, LAMBDA b : b.Close # NaN /\ b.High # NaN)

Closes(bars) == [i \in 1..Len(bars) |-> bars[i].Close]

\* a variant of TooShort: the threshold off by one (len(df) < 1)
TooShort_OffByOne(bars) == Len(bars) < 1

\* the absence threshold: len(df) < 2
TooShort(bars) == Len(bars) < 2

\* d1 = pct(closes[-1], closes[-2]) if len(closes) >= 2 else 0.0
D1(closes) ==
    LET n == Len(closes)
    IN  IF n >= 2 THEN pct(closes[n], closes[n - 1]) ELSE 0

\* a variant of W1: against closes[-5], the close four bars before the last
W1_FourBack(closes) ==
    LET n == Len(closes)
    IN  IF n >= 6 THEN pct(closes[n], closes[n - 4]) ELSE 0

\* w1 = pct(closes[-1], closes[-6]) if len(closes) >= 6 else 0.0
W1(closes) ==
    LET n == Len(closes)
    IN  IF n >= 6 THEN pct(closes[n], closes[n - 5]) ELSE 0

SeqMax(s) == CHOOSE m \in {s[i] : i \in 1..Len(s)} : \A i \in 1..Len(s) : s[i] <= m

\* hi52_price = float(df['High'].max()) if 'High' in df else price
Hi52Price(bars, hasHigh, price) ==
    IF hasHigh THEN SeqMax([i \in 1..Len(bars) |-> bars[i].High]) ELSE price

\* ytd: against the first close of the current calendar year, 0.0 without one
Ytd(bars, price) ==
    LET ytd_df == SelectSeq(bars, LAMBDA b : b.year = ThisYear)
    IN  IF Len(ytd_df) > 0 THEN pct(price, ytd_df[1].Close) ELSE 0

\* a variant of PadLeft: spark.append(0.0), the zeros on the right
RECURSIVE PadRight(_)
PadRight(s) == IF Len(s) < 5 THEN PadRight(s \o <<0>>) ELSE s

\* while len(spark) < 5: spark.insert(0, 0.0)
RECURSIVE PadLeft(_)
PadLeft(s) == IF Len(s) < 5 THEN PadLeft(<<0>> \o s) ELSE s

\* for i in range(max(1, len(closes)-5), len(closes)): spark.append(...)
\* (0-based i from max(1, n-5) to n-1 is the 1-based pair (k, k+1), k = i)
SparkChanges(closes) ==
    LET n  == Len(closes)
        lo == IF n - 5 > 1 THEN n - 5 ELSE 1
    IN  [j \in 1..(IF n - lo > 0 THEN n - lo ELSE 0) |->
            pct(closes[lo + j], closes[lo + j - 1])]

Spark(closes) == PadLeft(SparkChanges(closes))

extract_metrics(frame, s) ==
    LET bars   == DropNaClose(frame.bars)
        closes == Closes(bars)
        price  == closes[Len(closes)]
        base   == [sym   |-> Remap(s),
                   price |-> price,
                   d1    |-> D1(closes),
                   w1    |-> W1(closes),
                   hi52  |-> pct(price, Hi52Price(bars, frame.hasHigh, price)),
                   ytd   |-> Ytd(bars, price),
                   spark |-> Spark(closes)]
    IN  IF TooShort(bars) THEN None
        ELSE IF s \in DOMAIN crypto_ids
             THEN base @@ [id |-> crypto_ids[s], name |-> crypto_names[s]]
             ELSE base

RecordFields == {"sym", "price", "d1", "w1", "hi52", "ytd", "spark"}

----------------------------------------------------------------------------
(* The environment.  A download answers, for each requested symbol, with    *)
(* one of: no column for the symbol (Absent), a slice whose handling raises *)
(* (Malformed), or a frame of bars.  To keep a 13-group run finite and      *)
(* small, the environment of a run has a background (the network up or      *)
(* down, one payload for every symbol) chosen at the start, and may deviate *)
(* from it at most `budget` times, anywhere: an attempt that fails although *)
(* the network is up (or succeeds although it is down), a symbol answered   *)
(* with another payload.                                                    *)

Absent    == [kind |-> "absent"]
Malformed == [kind |-> "malformed"]

\* a frame whose rows are all of this year, with High = Close
FrameOf(closes) ==
    [kind    |-> "frame",
     hasHigh |-> TRUE,
     bars    |-> [i \in 1..Len(closes) |->
                    [Close |-> closes[i], High |-> closes[i], year |-> ThisYear]]]

ShortFrame == FrameOf(<<100>>)
UpFrame    == FrameOf(<<100, 100, 100, 100, 100, 101>>)
DownFrame  == FrameOf(<<100, 100, 100, 100, 100, 98>>)

Payloads == {Absent, Malformed, ShortFrame, UpFrame, DownFrame}

Backgrounds == [net : {"up", "down"}, pay : {UpFrame, ShortFrame}]

NoData == [kind |-> "nodata"]

EmptyMap == <<>>

Range(s) == {s[i] : i \in 1..Len(s)}

\* the download payloads for the symbols ts that differ from the background
\* in at most k places
RECURSIVE DataChoices(_, _)
DataChoices(ts, k) ==
    IF k = 0 THEN {[t \in ts |-> bg.pay]}
    ELSE LET less == DataChoices(ts, k - 1)
         IN  less \cup {[d EXCEPT ![t] = p] : d \in less, t \in ts, p \in Payloads}

Deviations(d) == Cardinality({t \in DOMAIN d : d[t] # bg.pay})

----------------------------------------------------------------------------
(* fetch_batch.                                                             *)

\* the errors a download or a slice can raise; all are Exception subclasses
ErrorKinds == {"network", "slice"}

\* a variant of DownloadCaught: a handler that lets network errors through
DownloadCaught_Narrow(e) == e = "slice"

\* `except Exception as e:` of the retry loop (lines 185-187)
DownloadCaught(e) == e \in ErrorKinds

\* a variant of ExtractCaught: a handler that lets slice errors through
ExtractCaught_Narrow(e) == e = "network"

\* `except Exception as e:` around each symbol's extraction (196, 209)
ExtractCaught(e) == e \in ErrorKinds

\* a variant of MoreAttempts: range(retries + 1), one attempt too many
MoreAttempts_OneMore(a, n) == a <= n

\* `for attempt in range(retries)`: is there another attempt to make?
MoreAttempts(a, n) == a < n

\* one symbol of the multi-symbol path (lines 201-210): the entry it puts
\* into results, nothing (continue), or an error raised inside the try
SymbolStep(p, s) ==
    IF p.kind = "absent" THEN [kind |-> "skip"]
    ELSE IF p.kind = "malformed" THEN [kind |-> "error", e |-> "slice"]
    ELSE [kind |-> "put",
          val  |-> extract_metrics([bars |-> DropNa(p.bars), hasHigh |-> p.hasHigh], s)]

\* the single-symbol path (lines 192-198): data is the frame itself, and a
\* frame without the expected columns raises inside extract_metrics
SingleStep(p, s) ==
    IF p.kind = "frame"
    THEN [kind |-> "put", val |-> extract_metrics(p, s)]
    ELSE [kind |-> "error", e |-> "slice"]

StepOf(tks, dat, s) ==
    IF Len(tks) = 1 THEN SingleStep(dat[s], s) ELSE SymbolStep(dat[s], s)

\* lines 192-211: the map built from a successful download
Extraction(tks, dat) ==
    LET put == {s \in Range(tks) : StepOf(tks, dat, s).kind = "put"}
    IN  [s \in put |-> StepOf(tks, dat, s).val]

\* does an error of the extraction escape fetch_batch?
ExtractionRaises(tks, dat) ==
    \E s \in Range(tks) :
        /\ StepOf(tks, dat, s).kind = "error"
        /\ ~ExtractCaught(StepOf(tks, dat, s).e)

\* lines 178-187, the except branch: a download attempt fails
DownloadFail ==
    /\ bpc = "try"
    /\ MoreAttempts(attempt, retries)
    /\ \/ bg.net = "down" /\ budget' = budget
       \/ bg.net = "up" /\ budget > 0 /\ budget' = budget - 1
    /\ dlog' = Append(dlog, [g |-> gi, ok |-> FALSE])
    /\ IF DownloadCaught("network")
       THEN /\ slept' = slept + RetryDelay
            /\ attempt' = attempt + 1
            /\ UNCHANGED <<bpc, raised>>
       ELSE /\ raised' = TRUE
            /\ bpc' = "returned"
            /\ UNCHANGED <<slept, attempt>>
    /\ UNCHANGED <<pc, tickers, retries, data, results, bg>>
    /\ UNCHANGED <<extractVars, allVars>>

\* lines 178-184 and 192-211: a download attempt succeeds, the loop breaks,
\* the symbols are extracted and the map is returned
DownloadOk ==
    /\ bpc = "try"
    /\ MoreAttempts(attempt, retries)
    /\ \E cost \in 0..1 :
        /\ cost = (IF bg.net = "up" THEN 0 ELSE 1)
        /\ cost <= budget
        /\ \E d \in DataChoices(Range(tickers), budget - cost) :
            /\ budget' = budget - cost - Deviations(d)
            /\ data' = d
            /\ IF ExtractionRaises(tickers, d)
               THEN raised' = TRUE /\ UNCHANGED results
               ELSE results' = Extraction(tickers, d) /\ UNCHANGED raised
    /\ dlog' = Append(dlog, [g |-> gi, ok |-> TRUE])
    /\ bpc' = "returned"
    /\ UNCHANGED <<pc, tickers, retries, attempt, slept, bg>>
    /\ UNCHANGED <<extractVars, allVars>>

\* lines 188-190, the for-else: every attempt failed, return the empty map
AllRetriesFailed ==
    /\ bpc = "try"
    /\ ~MoreAttempts(attempt, retries)
    /\ bpc' = "returned"
    /\ UNCHANGED <<pc, tickers, retries, attempt, data, results, raised, slept,
                   dlog, bg, budget>>
    /\ UNCHANGED <<extractVars, allVars>>

----------------------------------------------------------------------------
(* Values of the variables a specification does not use.                    *)

Keys == {"futures", "dxvix", "metals", "commod", "yields", "global", "etfmain",
         "submarket", "sector", "sectorew", "thematic", "country", "crypto"}

\* a 2-year source that has not been requested
Unprobed == [kind |-> "unprobed"]

ExtractIdle ==
    /\ df = NoData
    /\ sym = ""
    /\ result = None

AllIdle ==
    /\ gi = 0
    /\ output = [k \in Keys |-> <<>>]
    /\ raws = [k \in Keys |-> EmptyMap]
    /\ probed = <<>>
    /\ primaryRate = Unprobed
    /\ secondaryRate = Unprobed
    /\ rec2y = None
    /\ holdings = {}

----------------------------------------------------------------------------
(* SpecExtract: one call of extract_metrics.                                *)

CloseVals == {NaN, 0, 100, 103}

\* the frames of at most MaxBars rows: every sequence of closes (missing
\* ones included), with or without a High column (High = Close + 3), all
\* rows of this year or all of last year
BoundedFrames ==
    {[kind    |-> "frame",
      hasHigh |-> h,
      bars    |-> [i \in 1..Len(c) |->
                     [Close |-> c[i],
                      High  |-> IF c[i] = NaN THEN NaN ELSE c[i] + 3,
                      year  |-> IF y THEN ThisYear ELSE ThisYear - 1]]] :
        c \in UNION {[1..n -> CloseVals] : n \in 0..MaxBars},
        h \in BOOLEAN, y \in BOOLEAN}

\* the end-to-end scenario: 10 daily closes, the last one the maximum high
ScenarioCloses == <<100, 101, 99, 102, 103, 101, 104, 105, 103, 106>>

ExtractSyms == {"SPY", "BTC-USD"}

InitExtract ==
    /\ pc = "extract"
    /\ df \in BoundedFrames \cup {FrameOf(ScenarioCloses)}
    /\ sym \in ExtractSyms
    /\ result = None
    /\ tickers = <<>> /\ retries = 0 /\ attempt = 0 /\ bpc = "idle"
    /\ data = NoData /\ results = EmptyMap
    /\ raised = FALSE /\ slept = 0 /\ dlog = <<>>
    /\ AllIdle
    /\ bg = [net |-> "up", pay |-> UpFrame] /\ budget = 0

\* the body of extract_metrics (lines 213-241)
Extract ==
    /\ pc = "extract"
    /\ result' = extract_metrics(df, sym)
    /\ pc' = "extracted"
    /\ UNCHANGED <<df, sym, batchVars, raised, slept, dlog, allVars, bg, budget>>

NextExtract == Extract

SpecExtract == InitExtract /\ [][NextExtract]_vars

----------------------------------------------------------------------------
(* SpecBatch: one call of fetch_batch(tickers, retries).                    *)

THEMATIC == <<"BOTZ", "HACK", "SOXX", "ICLN", "SKYY", "XBI", "ITA", "FINX",
              "ARKG", "URA", "AIQ", "CIBR", "ROBO", "ARKK", "DRIV", "OGIG",
              "ACES", "PAVE", "HERO", "CLOU">>

InitBatch ==
    /\ pc = "batch"
    /\ ExtractIdle
    /\ tickers \in {SubSeq(THEMATIC, 1, n) : n \in 1..MaxBatch}
    /\ retries \in 0..MaxRetries
    /\ attempt = 0
    /\ bpc = "try"
    /\ data = NoData
    /\ results = EmptyMap
    /\ raised = FALSE /\ slept = 0 /\ dlog = <<>>
    /\ AllIdle
    /\ bg \in Backgrounds
    /\ budget = MaxFaults

NextBatch == DownloadFail \/ DownloadOk \/ AllRetriesFailed

SpecBatch == InitBatch /\ [][NextBatch]_vars

----------------------------------------------------------------------------
(* Configuration.  The ticker lists are the built-in defaults (lines 21-36) *)
(* unless tickers.json overrides them (lines 39-56); the run modelled here  *)
(* is configured with the first symbols of each default list: three for a   *)
(* ranked group, two for the others.                                        *)

ETF_MAIN   == <<"SPY", "QQQ", "DIA", "IWM">>
SUBMARKET  == <<"IVW", "IVE", "IJK", "IJJ", "IJT", "IJS", "MGK", "VUG", "VTV">>
SECTOR     == <<"XLK", "XLV", "XLF", "XLE", "XLY", "XLI", "XLB", "XLU", "XLRE",
                "XLC", "XLP">>
SECTOR_EW  == <<"RSPG", "RSPT", "RSPF", "RSPN", "RSPD", "RSP", "RSPU", "RSPM",
                "RSPH", "RSPR", "RSPS", "RSPC">>
COUNTRY    == <<"GREK", "ARGT", "EWS", "EWP", "EUFN", "MCHI", "EWZ", "EWI",
                "EWY", "EWH", "ECH", "EWC", "EWL", "EWQ", "EWA", "IEV", "IEUR",
                "INDA", "EWG", "EWW", "EZU", "EEM", "EFA", "EWD", "TUR", "EZA",
                "ACWI", "KSA", "EIDO", "EWJ", "EWT", "THD">>
FUTURES    == <<"ES=F", "NQ=F", "RTY=F", "YM=F">>
METALS     == <<"GC=F", "SI=F", "HG=F", "PL=F", "PA=F">>
ENERGY     == <<"CL=F", "NG=F">>
GLOBAL_IDX == <<"^N225", "^KS11", "^NSEI", "000001.SS", "000300.SS", "^HSI",
                "^FTSE", "^FCHI", "^GDAXI">>
YIELDS     == <<"^TNX", "^TYX">>
DX_VIX     == <<"DX-Y.NYB", "^VIX">>
CRYPTO_YF  == <<"BTC-USD", "ETH-USD", "SOL-USD", "XRP-USD">>

\* CFG.get(group, default): the configured list
CFG(default, n) == SubSeq(default, 1, n)

\* the groups whose lists are sorted by w1 (line 282)
Ranked == {"country", "sector", "sectorew", "thematic", "submarket"}

batches ==
    << [key |-> "futures",   tickers |-> CFG(FUTURES, 2)],
       [key |-> "etfmain",   tickers |-> CFG(ETF_MAIN, 2)],
       [key |-> "submarket", tickers |-> CFG(SUBMARKET, 3)],
       [key |-> "sector",    tickers |-> CFG(SECTOR, 3)],
       [key |-> "sectorew",  tickers |-> CFG(SECTOR_EW, 3)],
       [key |-> "thematic",  tickers |-> CFG(THEMATIC, 3)],
       [key |-> "country",   tickers |-> CFG(COUNTRY, 3)],
       [key |-> "metals",    tickers |-> CFG(METALS, 2)],
       [key |-> "commod",    tickers |-> CFG(ENERGY, 2)],
       [key |-> "global",    tickers |-> CFG(GLOBAL_IDX, 2)],
       [key |-> "yields",    tickers |-> CFG(YIELDS, 2)],
       [key |-> "dxvix",     tickers |-> CFG(DX_VIX, 2)],
       [key |-> "crypto",    tickers |-> CFG(CRYPTO_YF, 2)] >>

NGroups == Len(batches)

TickersOf(key) == batches[CHOOSE i \in 1..NGroups : batches[i].key = key].tickers

----------------------------------------------------------------------------
(* fetch_all: the group loop.                                               *)

\* raw.get(yf_sym)
Get(raw, t) == IF t \in DOMAIN raw THEN raw[t] ELSE None

\* `if rec:` -- None is falsy, a record (a non-empty dict) is truthy
Truthy(rec) == rec # None

\* yield_map.get(yf_sym, rec['sym'])
YieldSym(t, s) ==
    IF t = "^TNX" THEN "US10Y" ELSE IF t = "^TYX" THEN "US30Y" ELSE s

\* lines 267-269: the record as appended
Relabel(key, t, rec) ==
    IF key = "yields" THEN [rec EXCEPT !.sym = YieldSym(t, rec.sym)] ELSE rec

\* lines 264-272: the records appended to output[key], in ticker order
RECURSIVE Collected(_, _, _)
Collected(key, tks, raw) ==
    IF tks = <<>> THEN <<>>
    ELSE LET t   == Head(tks)
             rec == Get(raw, t)
         IN  (IF Truthy(rec) THEN <<Relabel(key, t, rec)>> ELSE <<>>)
                 \o Collected(key, Tail(tks), raw)

\* a variant of AfterGroup: the loop is left when a group came back empty
AfterGroup_StopOnEmpty(i) ==
    IF i < NGroups /\ results # EmptyMap THEN "loop" ELSE "treasury"

\* where fetch_all goes when a group's fetch_batch has returned
AfterGroup(i) == IF i < NGroups THEN "loop" ELSE "treasury"

\* lines 261-273: fetch_batch has returned; append the group's records,
\* sleep, and call fetch_batch for the next group (or leave the loop)
CollectGroup ==
    /\ pc = "loop"
    /\ bpc = "returned"
    /\ IF raised
       THEN /\ pc' = "crashed"
            /\ bpc' = "idle"
            /\ UNCHANGED <<tickers, retries, attempt, data, results, slept, gi,
                           output, raws>>
       ELSE /\ output' = [output EXCEPT ![batches[gi].key] =
                            @ \o Collected(batches[gi].key, tickers, results)]
            /\ raws' = [raws EXCEPT ![batches[gi].key] = results]
            /\ slept' = slept + GroupDelay
            /\ pc' = AfterGroup(gi)
            /\ IF AfterGroup(gi) = "loop"
               THEN /\ gi' = gi + 1
                    /\ tickers' = batches[gi + 1].tickers
                    /\ retries' = DefaultRetries
                    /\ attempt' = 0
                    /\ data' = NoData
                    /\ results' = EmptyMap
                    /\ bpc' = "try"
               ELSE /\ bpc' = "idle"
                    /\ UNCHANGED <<gi, tickers, retries, attempt, data, results>>
    /\ UNCHANGED <<extractVars, raised, dlog, probed, primaryRate, secondaryRate,
                   rec2y, holdings, bg, budget>>

----------------------------------------------------------------------------
(* fetch_treasury_2y.  A FRED response is an error (the request or          *)
(* raise_for_status raises) or the CSV's data rows; a row is "dot" (value   *)
(* '.'), "short" (not two columns), "junk" (text float() rejects) or "num". *)
(* A Treasury response is an error (request, status, XML parse) or the      *)
(* list of properties entries; an entry is "noelem" (no BC_2YEAR element),  *)
(* "empty" (no text), "junk" or "num".  Rates are in units of 1e-5.         *)

FredCells == {[t |-> "dot"], [t |-> "short"], [t |-> "junk"], [t |-> "num", v |-> 412346]}

XmlCells == {[t |-> "noelem"], [t |-> "empty"], [t |-> "junk"], [t |-> "num", v |-> 398761]}

FredResponses ==
    {[err |-> TRUE]} \cup
    {[err |-> FALSE, rows |-> r] : r \in UNION {[1..n -> FredCells] : n \in 0..MaxRows}}

XmlResponses ==
    {[err |-> TRUE]} \cup
    {[err |-> FALSE, rows |-> r] : r \in UNION {[1..n -> XmlCells] : n \in 0..MaxRows}}

\* lines 81-84: the newest row that holds a value; float() may raise
RECURSIVE LastValue(_)
LastValue(rows) ==
    IF rows = <<>> THEN [kind |-> "none"]
    ELSE LET c == rows[Len(rows)]
         IN  IF c.t \in {"dot", "short"} THEN LastValue(SubSeq(rows, 1, Len(rows) - 1))
             ELSE IF c.t = "junk" THEN [kind |-> "error"]
             ELSE [kind |-> "rate", v |-> c.v]

\* lines 74-93: what method 1 produces
FredParse(resp) == IF resp.err THEN [kind |-> "error"] ELSE LastValue(resp.rows)

\* lines 96-121: what method 2 produces (the last entry only)
XmlParse(resp) ==
    IF resp.err THEN [kind |-> "error"]
    ELSE IF resp.rows = <<>> THEN [kind |-> "none"]
    ELSE LET c == resp.rows[Len(resp.rows)]
         IN  IF c.t \in {"noelem", "empty"} THEN [kind |-> "none"]
             ELSE IF c.t = "junk" THEN [kind |-> "error"]
             ELSE [kind |-> "rate", v |-> c.v]

\* `if rate is not None: ... return {...}` (lines 85-91, 112-119)
Produced(r) == r.kind = "rate"

\* what a method leaves behind: its rate, or nothing (an error is caught and
\* only printed, lines 92-93 and 120-121)
Outcome(r) == IF Produced(r) THEN r ELSE [kind |-> "none"]

\* the record returned for a rate: round(rate, 4), everything else zero
Rec2Y(v) ==
    [sym |-> "US2Y", price |-> RoundDiv(v, 10), d1 |-> 0, w1 |-> 0, hi52 |-> 0,
     ytd |-> 0, spark |-> <<0, 0, 0, 0, 0>>]

\* a variant of InsertYield: a zero-rate record stands in for a missing yield
InsertYield_Default(list, rec) ==
    IF Truthy(rec) THEN <<rec>> \o list ELSE <<Rec2Y(0)>> \o list

\* a variant of InsertYield: the record is appended instead of put in front
InsertYield_Append(list, rec) == IF Truthy(rec) THEN list \o <<rec>> ELSE list

\* lines 278-279: if rec_2y: output['yields'].insert(0, rec_2y)
InsertYield(list, rec) == IF Truthy(rec) THEN <<rec>> \o list ELSE list

\* method 1, and the return to fetch_all when it produced a rate
ProbePrimary ==
    /\ pc = "treasury"
    /\ \E r \in {FredParse(resp) : resp \in FredResponses} :
            /\ primaryRate' = Outcome(r)
            /\ IF Produced(r)
               THEN /\ rec2y' = Rec2Y(r.v)
                    /\ output' = [output EXCEPT !["yields"] = InsertYield(@, Rec2Y(r.v))]
                    /\ pc' = "sort"
               ELSE /\ pc' = "secondary"
                    /\ UNCHANGED <<rec2y, output>>
    /\ probed' = Append(probed, "FRED")
    /\ UNCHANGED <<extractVars, batchVars, raised, slept, dlog, gi, raws,
                   secondaryRate, holdings, bg, budget>>

\* method 2, and the return to fetch_all (a record or None)
ProbeSecondary ==
    /\ pc = "secondary"
    /\ \E r \in {XmlParse(resp) : resp \in XmlResponses} :
        LET rec == IF Produced(r) THEN Rec2Y(r.v) ELSE None
        IN  /\ secondaryRate' = Outcome(r)
            /\ rec2y' = rec
            /\ output' = [output EXCEPT !["yields"] = InsertYield(@, rec)]
    /\ probed' = Append(probed, "TREASURY")
    /\ pc' = "sort"
    /\ UNCHANGED <<extractVars, batchVars, raised, slept, dlog, gi, raws,
                   primaryRate, holdings, bg, budget>>

----------------------------------------------------------------------------
(* fetch_all: sorting, holdings, return.                                    *)

\* a variant of InsertDesc: sort ascending and reverse, which turns the
\* order of equal keys around
InsertDesc_TiesFirst(sorted, x) ==
    LET k == Cardinality({i \in 1..Len(sorted) : sorted[i].w1 > x.w1})
    IN  SubSeq(sorted, 1, k) \o <<x>> \o SubSeq(sorted, k + 1, Len(sorted))

\* list.sort(key=w1, reverse=True) is stable: an element goes behind every
\* earlier element whose key is at least its own
InsertDesc(sorted, x) ==
    LET k == Cardinality({i \in 1..Len(sorted) : sorted[i].w1 >= x.w1})
    IN  SubSeq(sorted, 1, k) \o <<x>> \o SubSeq(sorted, k + 1, Len(sorted))

RECURSIVE SortDesc(_)
SortDesc(s) ==
    IF s = <<>> THEN <<>>
    ELSE InsertDesc(SortDesc(SubSeq(s, 1, Len(s) - 1)), s[Len(s)])

\* lines 282-283
SortRanked ==
    /\ pc = "sort"
    /\ output' = [k \in Keys |-> IF k \in Ranked THEN SortDesc(output[k]) ELSE output[k]]
    /\ pc' = "holdings"
    /\ UNCHANGED <<extractVars, batchVars, raised, slept, dlog, gi, raws, probed,
                   primaryRate, secondaryRate, rec2y, holdings, bg, budget>>

\* lines 286-288: list(dict.fromkeys(...)), as a set
holdings_tickers ==
    Range(TickersOf("etfmain")) \cup Range(TickersOf("submarket"))
    \cup Range(TickersOf("sector")) \cup Range(TickersOf("sectorew"))
    \cup Range(TickersOf("thematic")) \cup Range(TickersOf("country"))

\* the subsets of H with at most k elements
RECURSIVE SmallSubsets(_, _)
SmallSubsets(H, k) ==
    IF k = 0 THEN {{}}
    ELSE LET less == SmallSubsets(H, k - 1)
         IN  less \cup {D \cup {t} : D \in less, t \in H}

\* fetch_etf_holdings (lines 127-167): every error is caught per symbol; a
\* symbol is a key of the map when one of the two lookups gave rows.  The
\* environment answers for all symbols or for none, with up to `budget`
\* exceptions among the symbols of the first holdings group (etfmain)
HoldingsChoices(H, k) ==
    LET ex == SmallSubsets(Range(TickersOf("etfmain")), k)
    IN  ex \cup {H \ D : D \in ex}

\* lines 286-293
FetchHoldings ==
    /\ pc = "holdings"
    /\ holdings' \in HoldingsChoices(holdings_tickers, budget)
    /\ pc' = "done"
    /\ UNCHANGED <<extractVars, batchVars, raised, slept, dlog, gi, output, raws,
                   probed, primaryRate, secondaryRate, rec2y, bg, budget>>

\* line 303: total = sum(len(v) for v in data.values() if isinstance(v, list))
RECURSIVE SumLen(_, _)
SumLen(out, ks) ==
    IF ks = {} THEN 0
    ELSE LET k == CHOOSE x \in ks : TRUE
         IN  Len(out[k]) + SumLen(out, ks \ {k})

RecordCount == SumLen(output, Keys)

----------------------------------------------------------------------------
(* Spec: one run of fetch_all.                                              *)

Init ==
    /\ pc = "loop"
    /\ ExtractIdle
    /\ gi = 1
    /\ tickers = batches[1].tickers
    /\ retries = DefaultRetries
    /\ attempt = 0
    /\ bpc = "try"
    /\ data = NoData
    /\ results = EmptyMap
    /\ raised = FALSE /\ slept = 0 /\ dlog = <<>>
    /\ output = [k \in Keys |-> <<>>]
    /\ raws = [k \in Keys |-> EmptyMap]
    /\ probed = <<>>
    /\ primaryRate = Unprobed
    /\ secondaryRate = Unprobed
    /\ rec2y = None
    /\ holdings = {}
    /\ bg \in Backgrounds
    /\ budget = MaxFaults

Next ==
    \/ DownloadFail
    \/ DownloadOk
    \/ AllRetriesFailed
    \/ CollectGroup
    \/ ProbePrimary
    \/ ProbeSecondary
    \/ SortRanked
    \/ FetchHoldings

Spec == Init /\ [][Next]_vars

----------------------------------------------------------------------------
(* Properties of extract_metrics (SpecExtract).                             *)

\* the closes extract_metrics keeps: those that are not missing, in order
ValidCloses == SelectSeq(Closes(df.bars), LAMBDA c : c # NaN)

IsScenario == pc = "extracted" /\ df = FrameOf(ScenarioCloses)

\* the last five pairwise changes of the scenario: 103->101, 101->104,
\* 104->105, 105->103, 103->106
ScenarioSpark == <<-194, 297, 96, -190, 291>>

\* C4 as stated: on the 10 closes [100,101,99,102,103,101,104,105,103,106]
\* extract_metrics returns d1 = 2.91, w1 = pct(106, 101) = 4.95, hi52 = 0.0
\* and a spark of the last 5 pairwise changes without padding.
C4_AsStated ==
    IsScenario =>
        /\ result.d1 = 291
        /\ result.w1 = 495
        /\ result.hi52 = 0
        /\ result.spark = ScenarioSpark

\* C4 amended: on those 10 closes extract_metrics returns d1 = 2.91,
\* w1 = pct(106, 103) = 2.91 (the close five bars before the last is 103, not
\* 101), hi52 = 0.0 and a spark of the last 5 pairwise changes, no padding.
C4_Scenario ==
    IsScenario =>
        /\ result.d1 = 291
        /\ result.w1 = 291
        /\ result.hi52 = 0
        /\ result.spark = ScenarioSpark

C4_Witness == IsScenario /\ result # None /\ result.price = 106

\* C5 as stated: whatever the length of the input history (0 and 1 bars
\* included), extract_metrics yields a spark of exactly 5 entries.
C5_AsStated ==
    pc = "extracted" => ("spark" \in DOMAIN result /\ Len(result.spark) = 5)

\* C5 amended: whenever extract_metrics returns a record (two or more valid
\* bars; with fewer it returns None and there is no spark), its spark has
\* exactly 5 entries; the last min(5, n-1) of them are the guarded percent
\* changes between consecutive closes, oldest first, and the entries before
\* them are 0.0.
C5_Spark ==
    (pc = "extracted" /\ result # None) =>
        LET c == ValidCloses
            n == Len(c)
            m == IF n - 1 < 5 THEN n - 1 ELSE 5
        IN  /\ Len(result.spark) = 5
            /\ \A k \in 1..5 :
                result.spark[k] =
                    IF k <= 5 - m THEN 0
                    ELSE pct(c[n - (5 - k)], c[n - (5 - k) - 1])

\* three valid bars: two changes behind three padding zeros
C5_Witness ==
    /\ pc = "extracted"
    /\ Len(ValidCloses) = 3
    /\ result # None
    /\ result.spark[3] = 0
    /\ result.spark[4] # 0
    /\ result.spark[5] # 0

\* C6: with fewer than 2 bars left after dropping the bars with a missing
\* close extract_metrics returns None; with 2 or more it returns a record
\* that carries sym, price, d1, w1, hi52, ytd and spark.
C6_Absence ==
    pc = "extracted" =>
        LET valid == Cardinality({i \in 1..Len(df.bars) : df.bars[i].Close # NaN})
        IN  /\ valid < 2 => result = None
            /\ valid >= 2 => (result # None /\ RecordFields \subseteq DOMAIN result)

\* three bars of which only one has a close: absence
C6_Witness ==
    /\ pc = "extracted"
    /\ Len(df.bars) = 3
    /\ Len(ValidCloses) = 1
    /\ result = None

----------------------------------------------------------------------------
(* Properties of fetch_batch (SpecBatch).                                   *)

Failed == {i \in 1..Len(dlog) : ~dlog[i].ok}

Succeeded == {i \in 1..Len(dlog) : dlog[i].ok}

\* C1: fetch_batch makes at most `retries` download attempts, sleeps 5 after
\* each failed one, makes none after the first success, and when all fail
\* returns the empty map without raising.
C1_Retry ==
    /\ Len(dlog) <= retries
    /\ slept = 5 * Cardinality(Failed)
    /\ \A i \in Succeeded : i = Len(dlog)
    /\ ~raised
    /\ (bpc = "returned" /\ Succeeded = {}) =>
            (results = EmptyMap /\ Cardinality(Failed) = retries)
    /\ (bpc = "returned" /\ Succeeded # {}) => data # NoData

\* three attempts, all failed: 15 seconds slept, the empty map returned
C1_Witness ==
    /\ bpc = "returned"
    /\ retries = 3
    /\ Cardinality(Failed) = 3
    /\ slept = 15
    /\ results = EmptyMap
    /\ ~raised

Downloaded == bpc = "returned" /\ data # NoData

\* the symbols whose extraction fails: no column, a slice that raises, or
\* fewer than two bars (extract_metrics returns None)
FailingSyms == {s \in Range(tickers) : data[s] \in {Absent, Malformed, ShortFrame}}

NonNoneEntries == {s \in DOMAIN results : results[s] # None}

\* C2 as stated: after a successful download a symbol whose extraction
\* fails (slice raises, or extract_metrics returns None) is omitted from the
\* returned map and every other symbol's record is present; ten symbols
\* with one failing give a map of exactly 9 entries; the call does not fail.
C2_AsStated ==
    Downloaded =>
        /\ ~raised
        /\ DOMAIN results = Range(tickers) \ FailingSyms
        /\ (Len(tickers) = 10 /\ Cardinality(FailingSyms) = 1) =>
                Cardinality(DOMAIN results) = 9

\* C2 amended: after a successful download a symbol whose slice is missing
\* or raises is omitted from the returned map, a symbol for which
\* extract_metrics returns None is kept in the map with the value None, and
\* every other symbol's record is present; ten symbols with one failing
\* give a map with exactly 9 records (entries that are not None); the call
\* does not fail.
C2_PartialBatch ==
    Downloaded =>
        /\ ~raised
        /\ \A s \in Range(tickers) :
            /\ data[s] \in {Absent, Malformed} => s \notin DOMAIN results
            /\ data[s] = ShortFrame => (s \in DOMAIN results /\ results[s] = None)
            /\ data[s] \in {UpFrame, DownFrame} =>
                    /\ s \in DOMAIN results
                    /\ results[s] # None
                    /\ results[s].sym = Remap(s)
                    /\ results[s].price = data[s].bars[Len(data[s].bars)].Close
        /\ DOMAIN results \subseteq Range(tickers)
        /\ (Len(tickers) = 10 /\ Cardinality(FailingSyms) = 1) =>
                Cardinality(NonNoneEntries) = 9

\* ten symbols, one of them answered with a single bar
C2_Witness ==
    /\ Downloaded
    /\ Len(tickers) = 10
    /\ Cardinality(FailingSyms) = 1
    /\ \E s \in Range(tickers) : data[s] = ShortFrame
    /\ Cardinality(NonNoneEntries) = 9
    /\ Cardinality(DOMAIN results) = 10

----------------------------------------------------------------------------
(* Properties of fetch_all (Spec).                                          *)

Returned == pc = "done"

\* is the symbol t resolved in the map fetch_batch returned for its group?
Resolved(key, t) == t \in DOMAIN raws[key] /\ raws[key][t] # None

RECURSIVE SumResolved(_)
SumResolved(ks) ==
    IF ks = {} THEN 0
    ELSE LET k == CHOOSE x \in ks : TRUE
         IN  Cardinality({t \in Range(TickersOf(k)) : Resolved(k, t)})
                + SumResolved(ks \ {k})

\* the download attempts made for group g
AttemptsOf(g) == {i \in 1..Len(dlog) : dlog[i].g = g}

Completed(g) == \E i \in AttemptsOf(g) : dlog[i].ok

Exhausted(g) ==
    /\ Cardinality(AttemptsOf(g)) = 3
    /\ \A i \in AttemptsOf(g) : ~dlog[i].ok

\* C3 as stated: whatever fails, fetch_all completes without raising and
\* returns a snapshot that holds a non-zero count of records.
C3_AsStated ==
    /\ ~raised
    /\ pc # "crashed"
    /\ Returned => RecordCount > 0

\* C3 amended: whatever fails, fetch_all completes without raising and
\* returns a snapshot with all 13 group lists; its count of records is the
\* number of resolved identifiers plus one when a 2-year yield was obtained,
\* so it is zero when no identifier resolves and both 2-year sources fail.
C3_BestEffort ==
    /\ ~raised
    /\ pc # "crashed"
    /\ Returned =>
        /\ DOMAIN output = Keys
        /\ RecordCount = SumResolved(Keys) + (IF rec2y # None THEN 1 ELSE 0)
        /\ holdings \subseteq holdings_tickers

\* a run with exhausted groups, no 2-year yield and no holdings that still
\* returns records
C3_Witness ==
    /\ Returned
    /\ \E g \in 1..NGroups : Exhausted(g)
    /\ rec2y = None
    /\ holdings = {}
    /\ RecordCount > 0

W1s(list) == [i \in 1..Len(list) |-> list[i].w1]

\* position of the symbol with display name s in its group's ticker list
FetchIndex(key, s) ==
    CHOOSE i \in 1..Len(TickersOf(key)) : Remap(TickersOf(key)[i]) = s

\* C7: after fetch_all every ranked list is ordered by w1, largest first,
\* and records with equal w1 keep the order in which they were fetched.
C7_StableSort ==
    pc \in {"holdings", "done"} =>
        \A key \in Ranked :
            \A i, j \in 1..Len(output[key]) :
                i < j =>
                    /\ output[key][i].w1 >= output[key][j].w1
                    /\ output[key][i].w1 = output[key][j].w1 =>
                        FetchIndex(key, output[key][i].sym)
                            < FetchIndex(key, output[key][j].sym)

\* fetched with w1 = 1.0, -2.0, 1.0: the two 1.0 records lead, first one first
C7_Witness ==
    /\ Returned
    /\ W1s(output["sector"]) = <<100, 100, -200>>
    /\ output["sector"][1].sym = "XLK"
    /\ output["sector"][2].sym = "XLF"
    /\ output["sector"][3].sym = "XLV"

US2YEntries == {i \in 1..Len(output["yields"]) : output["yields"][i].sym = "US2Y"}

\* C8: the 2-year yield is probed from FRED first and from the Treasury XML
\* second, the second only when the first produced no parseable rate; the
\* record's price is the rate of the first source that produced one; when
\* both fail fetch_treasury_2y returns None and yields holds no US2Y entry.
C8_Fallback ==
    /\ probed \in {<<>>, <<"FRED">>, <<"FRED", "TREASURY">>}
    /\ Len(probed) = 2 => primaryRate.kind # "rate"
    /\ pc \in {"sort", "holdings", "done"} =>
        /\ primaryRate.kind = "rate" =>
            /\ probed = <<"FRED">>
            /\ rec2y # None
            /\ rec2y.price = RoundDiv(primaryRate.v, 10)
        /\ (primaryRate.kind # "rate" /\ secondaryRate.kind = "rate") =>
            /\ probed = <<"FRED", "TREASURY">>
            /\ rec2y # None
            /\ rec2y.price = RoundDiv(secondaryRate.v, 10)
        /\ (primaryRate.kind # "rate" /\ secondaryRate.kind # "rate") =>
            /\ probed = <<"FRED", "TREASURY">>
            /\ rec2y = None
            /\ US2YEntries = {}
        /\ rec2y # None =>
            /\ rec2y.sym = "US2Y"
            /\ rec2y \in Range(output["yields"])
            /\ Cardinality(US2YEntries) = 1

\* FRED gave no rate, the Treasury feed did: its rate is the US2Y price
C8_Witness ==
    /\ Returned
    /\ primaryRate.kind = "none"
    /\ secondaryRate.kind = "rate"
    /\ rec2y # None
    /\ rec2y.price = 39876
    /\ output["yields"][1] = rec2y

\* C9: the 13 groups are fetched one at a time in the order of batches: a
\* group's first download is issued only after every earlier group has
\* completed or exhausted its 3 attempts, an exhausted group does not keep
\* later groups from being fetched, and the run ends after at most 3
\* attempts per group, 39 in all.
C9_Order ==
    LET finished == {g \in 1..NGroups : Completed(g) \/ Exhausted(g)}
        started  == {dlog[i].g : i \in 1..Len(dlog)}
    IN  /\ NGroups = 13
        /\ \A i \in 1..(Len(dlog) - 1) : dlog[i].g <= dlog[i + 1].g
        /\ started \subseteq 1..NGroups
        /\ \A g \in started : 1..(g - 1) \subseteq finished
        /\ \A i \in 1..(Len(dlog) - 1) : dlog[i].ok => dlog[i + 1].g > dlog[i].g
        /\ \A g \in started : Cardinality(AttemptsOf(g)) <= 3
        /\ Len(dlog) <= 39
        /\ pc \in {"treasury", "secondary", "sort", "holdings", "done"} =>
                finished = 1..NGroups

\* an upper bound on the steps fetch_all still has to take
TailRank ==
    CASE pc = "treasury" -> 4 [] pc = "secondary" -> 3 [] pc = "sort" -> 2
      [] pc = "holdings" -> 1 [] OTHER -> 0

Measure ==
    IF pc = "loop"
    THEN (NGroups - gi) * (retries + 2) + (retries - attempt)
            + (IF bpc = "try" THEN 2 ELSE 1) + 4
    ELSE TailRank

\* C9, with termination: the order above holds throughout, and every step
\* of the run lowers a natural-number bound on the steps that remain.
C9_Sequential == [](C9_Order /\ Measure \in Nat) /\ [][Measure' < Measure]_vars

\* a group exhausted its budget and a later group was still fetched
C9_Witness ==
    /\ Returned
    /\ \E g, h \in 1..NGroups : g < h /\ Exhausted(g) /\ Completed(h)

\* the name under which the record of ticker t appears in the list of key
Display(key, t) == IF key = "yields" THEN YieldSym(t, Remap(t)) ELSE Remap(t)

Syms(list) == [i \in 1..Len(list) |-> list[i].sym]

\* C10: after fetch_all every group list holds only records of the group's
\* configured identifiers, one per resolved identifier and none for an
\* unresolved one; the non-ranked lists keep the configured order, yields
\* with the US2Y record, when there is one, in front; only the five ranked
\* lists are reordered.
C10_Frame ==
    Returned =>
        \A key \in Keys :
            LET list == output[key]
                tks  == TickersOf(key)
                own  == {i \in 1..Len(list) : list[i].sym # "US2Y"}
            IN  /\ \A i \in own : \E t \in Range(tks) : list[i].sym = Display(key, t)
                /\ key # "yields" => own = 1..Len(list)
                /\ \A t \in Range(tks) :
                    Cardinality({i \in 1..Len(list) : list[i].sym = Display(key, t)})
                        = IF Resolved(key, t) THEN 1 ELSE 0
                /\ \A n \in 1..Len(tks) : \A i \in own :
                    list[i].sym = Display(key, tks[n]) =>
                        /\ list[i].price = raws[key][tks[n]].price
                        /\ list[i].w1 = raws[key][tks[n]].w1
                /\ key \notin Ranked =>
                    \A i, j \in own : \A m, n \in 1..Len(tks) :
                        (/\ i < j
                         /\ list[i].sym = Display(key, tks[m])
                         /\ list[j].sym = Display(key, tks[n])) => m < n
                /\ (key = "yields" /\ rec2y # None) => list[1] = rec2y
                /\ (key = "yields" /\ rec2y = None) => own = 1..Len(list)

\* yields reads 2Y, 10Y, 30Y while one futures identifier is unresolved
C10_Witness ==
    /\ Returned
    /\ Syms(output["yields"]) = <<"US2Y", "US10Y", "US30Y">>
    /\ Syms(output["futures"]) = <<"NQ1!">>
    /\ Len(output["sector"]) = 3

====
